---- MODULE Spec2Model ----
(***************************************************************************)
(* ecs_metadata: ECSMetadata::init() (environment read, one GET, status    *)
(* check, JSON decode) and the accessors of the decoded snapshot.          *)
(*                                                                         *)
(* Strings are sequences of symbols; a symbol is either the character "/"  *)
(* or a chunk of characters holding no "/".                                *)
(***************************************************************************)
EXTENDS Integers, Sequences, FiniteSets, TLC

VARIABLES env, pc, metadata_url, response, result, requests, decoded, ret

vars == <<env, pc, metadata_url, response, result, requests, decoded, ret>>

(* ------------------------------ bounds --------------------------------- *)

\* number of concurrent init() invocations
NumCalls == 2

\* longest generated task-arn, in symbols
MaxLen == 3

(* ---------------------- Option / Result values -------------------------- *)

None == [some |-> FALSE]

Some(x) == [some |-> TRUE, v |-> x]

Ok(x) == [ok |-> TRUE, v |-> x]

Err(e) == [ok |-> FALSE, e |-> e]

(* ------------------------------ errors ---------------------------------- *)

FetchError == [variant |-> "FetchError"]

\* #[from] ReqwestError; kind is the reqwest error's kind
HttpError(kind) == [variant |-> "HttpError", source |-> kind]

EnvVarNotSet(name) == [variant |-> "EnvVarNotSet", name |-> name]

ECS_METADATA_V4_ENV_VAR == "ECS_CONTAINER_METADATA_URI_V4"

(* ------------------------------- JSON ----------------------------------- *)

JString(s) == [t |-> "string", s |-> s]

JNumber(n) == [t |-> "number", n |-> n]

JObject(f) == [t |-> "object", o |-> f]

JNull == [t |-> "null"]

\* a body that is not JSON text at all
NotJson == [t |-> "garbage"]

U16_MAX == 65535

\* String: only a JSON string is accepted
de_String(j) == IF j.t = "string" THEN Ok(j.s) ELSE Err("invalid type")

\* mutant: a limit of 0 is taken as no value
de_u16_nonzero(j) ==
  IF j.t = "number" /\ j.n >= 1 /\ j.n <= U16_MAX THEN Ok(j.n)
  ELSE Err("invalid value")

\* u16: only an integer in 0..=65535 is accepted
de_u16(j) ==
  IF j.t = "number" /\ j.n >= 0 /\ j.n <= U16_MAX THEN Ok(j.n)
  ELSE Err("invalid value")

\* mutant: a field that is not there is defaulted to the empty string
field_default(obj, key) ==
  IF key \in DOMAIN obj THEN Ok(obj[key]) ELSE Ok(JString(<<>>))

\* the value under a struct's wire key; a field that is not there is an error
\* (no field is an Option and none has a default)
field(obj, key) ==
  IF key \in DOMAIN obj THEN Ok(obj[key]) ELSE Err("missing field")

de_ECSContainerLimits(j) ==
  IF j.t # "object" THEN Err("invalid type")
  ELSE LET cpu == field(j.o, "CPU")
           mem == field(j.o, "Memory")
       IN IF ~cpu.ok \/ ~mem.ok THEN Err("missing field")
          ELSE LET c == de_u16(cpu.v)
                   m == de_u16(mem.v)
               IN IF c.ok /\ m.ok THEN Ok([cpu |-> c.v, mem |-> m.v])
                  ELSE Err("invalid value")

de_ECSContainerLabels(j) ==
  IF j.t # "object" THEN Err("invalid type")
  ELSE LET cluster == field(j.o, "com.amazonaws.ecs.cluster")
           container_name == field(j.o, "com.amazonaws.ecs.container-name")
           task_arn == field(j.o, "com.amazonaws.ecs.task-arn")
           family == field(j.o, "com.amazonaws.ecs.task-definition-family")
           version == field(j.o, "com.amazonaws.ecs.task-definition-version")
       IN IF ~cluster.ok \/ ~container_name.ok \/ ~task_arn.ok \/ ~family.ok
             \/ ~version.ok
          THEN Err("missing field")
          ELSE LET a == de_String(cluster.v)
                   b == de_String(container_name.v)
                   c == de_String(task_arn.v)
                   d == de_String(family.v)
                   e == de_String(version.v)
               IN IF a.ok /\ b.ok /\ c.ok /\ d.ok /\ e.ok
                  THEN Ok([cluster |-> a.v, container_name |-> b.v,
                           task_arn |-> c.v, task_definition_family |-> d.v,
                           task_definition_version |-> e.v])
                  ELSE Err("invalid type")

\* rename_all = "PascalCase"; keys the struct does not name are ignored
de_ECSContainerMetadataV4(j) ==
  IF j.t # "object" THEN Err("invalid type")
  ELSE LET docker_id == field(j.o, "DockerId")
           image == field(j.o, "Image")
           labels == field(j.o, "Labels")
           limits == field(j.o, "Limits")
       IN IF ~docker_id.ok \/ ~image.ok \/ ~labels.ok \/ ~limits.ok
          THEN Err("missing field")
          ELSE LET a == de_String(docker_id.v)
                   b == de_String(image.v)
                   c == de_ECSContainerLabels(labels.v)
                   d == de_ECSContainerLimits(limits.v)
               IN IF a.ok /\ b.ok /\ c.ok /\ d.ok
                  THEN Ok([docker_id |-> a.v, image |-> b.v,
                           labels |-> c.v, limits |-> d.v])
                  ELSE Err("invalid")

(* ----------------------------- accessors -------------------------------- *)

RECURSIVE split(_, _)
\* str::split: the pieces between separators; never an empty sequence
split(s, sep) ==
  IF s = <<>> THEN << <<>> >>
  ELSE LET rest == split(Tail(s), sep)
       IN IF Head(s) = sep THEN << <<>> >> \o rest
          ELSE << <<Head(s)>> \o Head(rest) >> \o Tail(rest)

\* Iterator::last
last(it) == IF it = <<>> THEN None ELSE Some(it[Len(it)])

task_arn(self) == self.metadata.labels.task_arn

RECURSIVE after_first(_, _)
after_first(s, sep) ==
  IF s = <<>> THEN <<>>
  ELSE IF Head(s) = sep THEN Tail(s) ELSE after_first(Tail(s), sep)

\* mutant: what follows the first separator, not the last
task_id_after_first(self) ==
  Some(after_first(self.metadata.labels.task_arn, "/"))

task_id(self) == last(split(self.metadata.labels.task_arn, "/"))

cluster(self) == self.metadata.labels.cluster

limits(self) == self.metadata.limits

docker_id(self) == self.metadata.docker_id

image(self) == self.metadata.image

task_definition_family(self) == self.metadata.labels.task_definition_family

task_definition_revision(self) == self.metadata.labels.task_definition_version

container_name(self) == self.metadata.labels.container_name

(* ------------------------------ inputs ---------------------------------- *)

Calls == 1..NumCalls

\* what the process environment holds for ECS_METADATA_V4_ENV_VAR
EnvValues ==
  {[kind |-> "unset"], [kind |-> "not_unicode"],
   [kind |-> "set", value |-> <<"http:", "/", "/", "169.254.170.2", "/", "v4">>]}

Statuses == {200, 300, 404, 500}

Body(did, img, cl, cn, arn, fam, ver, cpu, mem) ==
  JObject(
    ("DockerId" :> did) @@ ("Image" :> img) @@
    ("Labels" :> JObject(
       ("com.amazonaws.ecs.cluster" :> cl) @@
       ("com.amazonaws.ecs.container-name" :> cn) @@
       ("com.amazonaws.ecs.task-arn" :> arn) @@
       ("com.amazonaws.ecs.task-definition-family" :> fam) @@
       ("com.amazonaws.ecs.task-definition-version" :> ver))) @@
    ("Limits" :> JObject(("CPU" :> cpu) @@ ("Memory" :> mem))))

ExampleArn ==
  <<"arn:aws:ecs:us-east-1:939885537497:task", "/", "production", "/",
    "021447970bce4bd58069f1925cd87bc0">>

\* the document of test_parse_ecs_metadata
json_data ==
  Body(JString(<<"2969e5e20eda3af46d590cd7adfed899862bbcce424ae438a51a2a0b0edfcda0">>),
       JString(<<"939885537497.dkr.ecr.us-east-1.amazonaws.com", "/",
                 "streamer:latest-production">>),
       JString(<<"production">>), JString(<<"streamer">>), JString(ExampleArn),
       JString(<<"streamer">>), JString(<<"12">>), JNumber(2), JNumber(0))

Without(j, key) == JObject([k \in DOMAIN j.o \ {key} |-> j.o[k]])

With(j, key, val) ==
  JObject([k \in DOMAIN j.o \cup {key} |-> IF k = key THEN val ELSE j.o[k]])

\* documents that do not match the schema: a field missing, a label missing,
\* a field of the wrong type, a limit that is no u16
BadBodies ==
  {Without(json_data, "DockerId"),
   With(json_data, "Image", JNumber(7)),
   With(json_data, "Labels",
        Without(json_data.o["Labels"], "com.amazonaws.ecs.task-arn")),
   With(json_data, "Limits",
        With(json_data.o["Limits"], "CPU", JNumber(U16_MAX + 1)))}

\* what the endpoint may answer to a concurrent caller: the test's document,
\* a document with a field missing, a body that is not JSON
Bodies == {json_data, Without(json_data, "DockerId"), NotJson}

Responses == [status : Statuses, body : Bodies]

Alphabet == {"/", "a", "b"}

StringsUpTo(n) == UNION {[1..k -> Alphabet] : k \in 0..n}

Arns == StringsUpTo(MaxLen) \cup {ExampleArn}

LimitValues == {0 - 1, 0, 2, U16_MAX, U16_MAX + 1}

\* documents with every field a string or a number, any task-arn and limits
FieldBodies ==
  {Body(JString(<<"abc123">>), JString(<<"repo:tag">>), JString(<<"production">>),
        JString(<<"streamer">>), JString(arn), JString(<<"family">>),
        JString(<<"12">>), JNumber(cpu), JNumber(mem)) :
     arn \in Arns, cpu \in LimitValues, mem \in LimitValues}

\* a key the structs do not name
ExtraBodies == {With(json_data, "Name", JString(<<"streamer">>))}

\* bodies that are no JSON object, and objects with a member of another shape
OddBodies ==
  {NotJson, JNull, JString(<<"DockerId">>),
   With(json_data, "Labels", JNull),
   With(json_data, "Limits", JNumber(2)),
   With(json_data, "Limits", Without(json_data.o["Limits"], "Memory")),
   With(json_data, "Labels",
        With(json_data.o["Labels"], "com.amazonaws.ecs.cluster", JNull))}

AllBodies ==
  FieldBodies \cup ExtraBodies \cup OddBodies \cup BadBodies \cup Bodies

(* ------------------------- library operations --------------------------- *)

\* mutant: a value that is not Unicode is read lossily
env_var_lossy(e) ==
  IF e.kind = "set" THEN Ok(e.value)
  ELSE IF e.kind = "not_unicode" THEN Ok(<<"?">>) ELSE Err(e.kind)

\* std::env::var: Err(NotPresent) or Err(NotUnicode) or Ok(value)
env_var(e) == IF e.kind = "set" THEN Ok(e.value) ELSE Err(e.kind)

\* StatusCode::is_client_error() || StatusCode::is_server_error()
is_error_status(status) == status >= 400 /\ status <= 599

\* Response::error_for_status
error_for_status(resp) ==
  IF is_error_status(resp.status) THEN Err("status") ELSE Ok(resp)

\* Response::json::<ECSContainerMetadataV4>
json(resp) ==
  LET m == de_ECSContainerMetadataV4(resp.body)
  IN IF m.ok THEN Ok(m.v) ELSE Err("decode")

(* ------------------------------- init ----------------------------------- *)

Finish(i, r) ==
  /\ result' = [result EXCEPT ![i] = r]
  /\ pc' = [pc EXCEPT ![i] = "done"]

\* env::var(ECS_METADATA_V4_ENV_VAR).map_err(..)?
ReadEnv(i) ==
  /\ pc[i] = "env"
  /\ LET v == env_var(env)
     IN IF v.ok
        THEN /\ metadata_url' = [metadata_url EXCEPT ![i] = Some(v.v)]
             /\ pc' = [pc EXCEPT ![i] = "get"]
             /\ UNCHANGED result
        ELSE /\ Finish(i, Err(EnvVarNotSet(ECS_METADATA_V4_ENV_VAR)))
             /\ UNCHANGED metadata_url
  /\ UNCHANGED <<env, response, requests, decoded, ret>>

\* mutant: a transport failure is retried
GetRetry(i) ==
  /\ pc[i] = "get"
  /\ requests' = [requests EXCEPT ![i] = Append(@, metadata_url[i].v)]
  /\ \/ /\ Len(requests[i]) >= 1
        /\ Finish(i, Err(HttpError("request")))
        /\ UNCHANGED response
     \/ /\ Len(requests[i]) < 1
        /\ UNCHANGED <<pc, result, response>>
     \/ \E r \in Responses :
          /\ response' = [response EXCEPT ![i] = Some(r)]
          /\ pc' = [pc EXCEPT ![i] = "status"]
          /\ UNCHANGED result
  /\ UNCHANGED <<env, metadata_url, decoded, ret>>

\* mutant: a response another invocation already holds is reused
GetCached(i) ==
  /\ pc[i] = "get"
  /\ \/ /\ \E j \in DOMAIN pc \ {i} : response[j] # None
        /\ \E j \in DOMAIN pc \ {i} :
             /\ response[j] # None
             /\ response' = [response EXCEPT ![i] = response[j]]
        /\ pc' = [pc EXCEPT ![i] = "status"]
        /\ UNCHANGED <<result, requests>>
     \/ /\ \A j \in DOMAIN pc \ {i} : response[j] = None
        /\ requests' = [requests EXCEPT ![i] = Append(@, metadata_url[i].v)]
        /\ \/ /\ Finish(i, Err(HttpError("request")))
              /\ UNCHANGED response
           \/ \E r \in Responses :
                /\ response' = [response EXCEPT ![i] = Some(r)]
                /\ pc' = [pc EXCEPT ![i] = "status"]
                /\ UNCHANGED result
  /\ UNCHANGED <<env, metadata_url, decoded, ret>>

\* reqwest::get(&metadata_url).await?  The call is made once; it ends with a
\* transport error or with the endpoint's response.
Get(i) ==
  /\ pc[i] = "get"
  /\ requests' = [requests EXCEPT ![i] = Append(@, metadata_url[i].v)]
  /\ \/ /\ Finish(i, Err(HttpError("request")))
        /\ UNCHANGED response
     \/ \E r \in Responses :
          /\ response' = [response EXCEPT ![i] = Some(r)]
          /\ pc' = [pc EXCEPT ![i] = "status"]
          /\ UNCHANGED result
  /\ UNCHANGED <<env, metadata_url, decoded, ret>>

\* .error_for_status()?
ErrorForStatus(i) ==
  /\ pc[i] = "status"
  /\ LET r == error_for_status(response[i].v)
     IN IF r.ok
        THEN /\ pc' = [pc EXCEPT ![i] = "json"]
             /\ UNCHANGED result
        ELSE Finish(i, Err(HttpError(r.e)))
  /\ UNCHANGED <<env, metadata_url, response, requests, decoded, ret>>

\* mutant: a decode failure is reported as FetchError
JsonFetchError(i) ==
  /\ pc[i] = "json"
  /\ decoded' = [decoded EXCEPT ![i] = TRUE]
  /\ LET m == json(response[i].v)
     IN IF m.ok THEN Finish(i, Ok([metadata |-> m.v]))
        ELSE Finish(i, Err(FetchError))
  /\ UNCHANGED <<env, metadata_url, response, requests, ret>>

\* let metadata = response.json().await?; Ok(Self { metadata })
Json(i) ==
  /\ pc[i] = "json"
  /\ decoded' = [decoded EXCEPT ![i] = TRUE]
  /\ LET m == json(response[i].v)
     IN IF m.ok THEN Finish(i, Ok([metadata |-> m.v]))
        ELSE Finish(i, Err(HttpError(m.e)))
  /\ UNCHANGED <<env, metadata_url, response, requests, ret>>

(* --------------------------- accessor calls ----------------------------- *)

NoRet == [name |-> "none"]

StrRet(name, s) == [name |-> name, str |-> s]

OptRet(name, o) == [name |-> name, opt |-> o]

LimRet(name, l) == [name |-> name, lim |-> l]

\* the caller holds the ECSMetadata that init() returned
Fetched(i) == pc[i] = "done" /\ result[i].ok

\* a call on &self: the caller gets the value, the instance is only borrowed
Return(i, r) ==
  /\ ret' = [ret EXCEPT ![i] = r]
  /\ UNCHANGED <<env, pc, metadata_url, response, result, requests, decoded>>

TaskArn(i) == Fetched(i) /\ Return(i, StrRet("task_arn", task_arn(result[i].v)))

\* mutant: the id is split off the stored task_arn
TaskIdSplitOff(i) ==
  /\ Fetched(i)
  /\ ret' = [ret EXCEPT ![i] = OptRet("task_id", task_id(result[i].v))]
  /\ result' = [result EXCEPT ![i].v.metadata.labels.task_arn =
                  SubSeq(@, 1, Len(@) - Len(task_id(result[i].v).v))]
  /\ UNCHANGED <<env, pc, metadata_url, response, requests, decoded>>

TaskId(i) == Fetched(i) /\ Return(i, OptRet("task_id", task_id(result[i].v)))

Cluster(i) == Fetched(i) /\ Return(i, StrRet("cluster", cluster(result[i].v)))

Limits(i) == Fetched(i) /\ Return(i, LimRet("limits", limits(result[i].v)))

DockerId(i) == Fetched(i) /\ Return(i, StrRet("docker_id", docker_id(result[i].v)))

Image(i) == Fetched(i) /\ Return(i, StrRet("image", image(result[i].v)))

TaskDefinitionFamily(i) ==
  Fetched(i) /\ Return(i, StrRet("task_definition_family",
                                 task_definition_family(result[i].v)))

TaskDefinitionRevision(i) ==
  Fetched(i) /\ Return(i, StrRet("task_definition_revision",
                                 task_definition_revision(result[i].v)))

ContainerName(i) ==
  Fetched(i) /\ Return(i, StrRet("container_name", container_name(result[i].v)))

(* --------------------------- specifications ----------------------------- *)

\* NumCalls tasks of one process, each about to run init()
Init ==
  /\ env \in EnvValues
  /\ pc = [i \in Calls |-> "env"]
  /\ metadata_url = [i \in Calls |-> None]
  /\ response = [i \in Calls |-> None]
  /\ result = [i \in Calls |-> None]
  /\ requests = [i \in Calls |-> <<>>]
  /\ decoded = [i \in Calls |-> FALSE]
  /\ ret = [i \in Calls |-> NoRet]

Next ==
  \E i \in Calls :
    \/ ReadEnv(i)
    \/ Get(i)
    \/ ErrorForStatus(i)
    \/ Json(i)
    \/ TaskArn(i)
    \/ TaskId(i)
    \/ Cluster(i)
    \/ Limits(i)
    \/ DockerId(i)
    \/ Image(i)
    \/ TaskDefinitionFamily(i)
    \/ TaskDefinitionRevision(i)
    \/ ContainerName(i)

Spec == Init /\ [][Next]_vars

\* success statuses of the answer that is decoded
BodyStatuses == {200, 299}

\* one init() whose GET was answered with a success status and any document
\* of AllBodies, about to decode it
InitBody ==
  /\ env \in {e \in EnvValues : e.kind = "set"}
  /\ pc = [i \in {1} |-> "json"]
  /\ metadata_url = [i \in {1} |-> Some(env.value)]
  /\ \E st \in BodyStatuses, b \in AllBodies :
       response = [i \in {1} |-> Some([status |-> st, body |-> b])]
  /\ result = [i \in {1} |-> None]
  /\ requests = [i \in {1} |-> <<env.value>>]
  /\ decoded = [i \in {1} |-> FALSE]
  /\ ret = [i \in {1} |-> NoRet]

NextBody ==
  \/ Json(1)
  \/ TaskArn(1)
  \/ TaskId(1)
  \/ Cluster(1)
  \/ Limits(1)
  \/ DockerId(1)
  \/ Image(1)
  \/ TaskDefinitionFamily(1)
  \/ TaskDefinitionRevision(1)
  \/ ContainerName(1)

SpecBody == InitBody /\ [][NextBody]_vars

(* ------------------------- notions of the claims ------------------------ *)

HasSlash(s) == \E k \in 1..Len(s) : s[k] = "/"

\* what follows the last "/" of a string that has one
AfterLastSlash(s) ==
  LET k == CHOOSE n \in 1..Len(s) :
             s[n] = "/" /\ \A m \in (n + 1)..Len(s) : s[m] # "/"
  IN SubSeq(s, k + 1, Len(s))

LabelKeys ==
  {"com.amazonaws.ecs.cluster", "com.amazonaws.ecs.container-name",
   "com.amazonaws.ecs.task-arn", "com.amazonaws.ecs.task-definition-family",
   "com.amazonaws.ecs.task-definition-version"}

HasStringAt(o, k) == k \in DOMAIN o /\ o[k].t = "string"

HasU16At(o, k) ==
  k \in DOMAIN o /\ o[k].t = "number" /\ o[k].n \in 0..65535

HasObjectAt(o, k) == k \in DOMAIN o /\ o[k].t = "object"

\* the wire schema: DockerId, Image, the five labels, CPU and Memory
MatchesSchema(j) ==
  /\ j.t = "object"
  /\ HasStringAt(j.o, "DockerId")
  /\ HasStringAt(j.o, "Image")
  /\ HasObjectAt(j.o, "Labels")
  /\ \A k \in LabelKeys : HasStringAt(j.o["Labels"].o, k)
  /\ HasObjectAt(j.o, "Limits")
  /\ HasU16At(j.o["Limits"].o, "CPU")
  /\ HasU16At(j.o["Limits"].o, "Memory")

Label(j, k) == j.o["Labels"].o[k].s

Limit(j, k) == j.o["Limits"].o[k].n

\* the body of the response that invocation i received
BodyOf(i) == response[i].v.body

StatusOf(i) == response[i].v.status

Done(i) == pc[i] = "done"

Failed(i) == Done(i) /\ ~result[i].ok

IsHttpError(i) == Failed(i) /\ result[i].e.variant = "HttpError"

\* the task_arn of the instance invocation i returned
ArnOf(i) == result[i].v.metadata.labels.task_arn

(* ------------------------------- claims --------------------------------- *)

\* C1: for every instance whose task_arn holds no "/", task_id() returns
\* None (never the whole task_arn as the id).
C1_NoSlashIsNone ==
  \A i \in DOMAIN pc :
    (ret[i].name = "task_id" /\ ~HasSlash(ArnOf(i))) => ret[i].opt = None

\* C2: for every instance whose task_arn holds a "/", task_id() returns
\* exactly what follows its last "/": it holds no "/", it is empty when the
\* task_arn ends in "/", and the example ARN gives its last segment.
C2_TaskIdAfterLastSlash ==
  \A i \in DOMAIN pc :
    (ret[i].name = "task_id" /\ HasSlash(ArnOf(i))) =>
      /\ ret[i].opt = Some(AfterLastSlash(ArnOf(i)))
      /\ ~HasSlash(ret[i].opt.v)
      /\ ArnOf(i)[Len(ArnOf(i))] = "/" => ret[i].opt.v = <<>>
      /\ ArnOf(i) = ExampleArn =>
           ret[i].opt.v = <<"021447970bce4bd58069f1925cd87bc0">>

C2_Witness ==
  /\ ret[1].name = "task_id"
  /\ ArnOf(1) = <<"a", "/", "/">>
  /\ ret[1].opt = Some(<<>>)

\* C3: when the environment variable is absent or not valid Unicode, init()
\* returns EnvVarNotSet with the variable's name and never issues a request;
\* a request is issued only after the environment read succeeded.
C3_EnvFailureShortCircuits ==
  \A i \in DOMAIN pc :
    /\ (env.kind # "set" /\ pc[i] # "env") =>
         /\ Done(i)
         /\ result[i] = Err([variant |-> "EnvVarNotSet",
                             name |-> "ECS_CONTAINER_METADATA_URI_V4"])
    /\ env.kind # "set" => requests[i] = <<>> /\ response[i] = None
    /\ requests[i] # <<>> => metadata_url[i] # None

C3_Witness ==
  /\ env.kind = "not_unicode"
  /\ Done(1)
  /\ result[1].e.variant = "EnvVarNotSet"
  /\ requests[1] = <<>>

\* C4: when the GET completes with a status outside 200-299, init() returns
\* HttpError, the body is never decoded and no instance is constructed.
C4_Non2xxIsHttpError ==
  \A i \in DOMAIN pc :
    (response[i] # None /\ StatusOf(i) \notin 200..299) =>
      /\ ~decoded[i]
      /\ Done(i) => IsHttpError(i)

C6_RoundTrip ==
  \A i \in DOMAIN pc :
    /\ (Done(i) /\ decoded[i] /\ MatchesSchema(BodyOf(i))) => result[i].ok
    /\ ret[i].name = "docker_id" => ret[i].str = BodyOf(i).o["DockerId"].s
    /\ ret[i].name = "image" => ret[i].str = BodyOf(i).o["Image"].s
    /\ ret[i].name = "cluster" =>
         ret[i].str = Label(BodyOf(i), "com.amazonaws.ecs.cluster")
    /\ ret[i].name = "container_name" =>
         ret[i].str = Label(BodyOf(i), "com.amazonaws.ecs.container-name")
    /\ ret[i].name = "task_arn" =>
         ret[i].str = Label(BodyOf(i), "com.amazonaws.ecs.task-arn")
    /\ ret[i].name = "task_definition_family" =>
         ret[i].str = Label(BodyOf(i), "com.amazonaws.ecs.task-definition-family")
    /\ ret[i].name = "task_definition_revision" =>
         ret[i].str = Label(BodyOf(i), "com.amazonaws.ecs.task-definition-version")
    /\ ret[i].name = "limits" =>
         /\ ret[i].lim.cpu = Limit(BodyOf(i), "CPU")
         /\ ret[i].lim.mem = Limit(BodyOf(i), "Memory")

C6_Witness ==
  /\ ret[1].name = "limits"
  /\ Limit(BodyOf(1), "Memory") = 0
  /\ Limit(BodyOf(1), "CPU") = 65535
  /\ ret[1].lim = [cpu |-> 65535, mem |-> 0]

\* the steps of init(), in the order of the code
Rank(p) ==
  CASE p = "env" -> 0 [] p = "get" -> 1 [] p = "status" -> 2
    [] p = "json" -> 3 [] p = "done" -> 4

InitStep(i) == ReadEnv(i) \/ Get(i) \/ ErrorForStatus(i) \/ Json(i)

Local(i) ==
  <<pc[i], metadata_url[i], response[i], result[i], requests[i], decoded[i],
    ret[i]>>

\* C8: under every interleaving, a step of one invocation leaves the other
\* invocations and the environment untouched; every invocation that holds a
\* response issued its own GET for it; and two invocations that read the same
\* environment value and received the same response return the same result.
C8_Independent ==
  /\ [](\A i \in DOMAIN pc :
          /\ (response[i] # None \/ Rank(pc[i]) \in {2, 3}) =>
               requests[i] = <<metadata_url[i].v>>
          /\ \A j \in DOMAIN pc :
               (Done(i) /\ Done(j) /\ metadata_url[i] = metadata_url[j]
                  /\ response[i] = response[j]) => result[i] = result[j])
  /\ [][/\ env' = env
        /\ \E i \in DOMAIN pc : \A j \in DOMAIN pc \ {i} : Local(j)' = Local(j)]_vars

C8_Witness ==
  /\ Done(1) /\ Done(2)
  /\ requests[1] # <<>> /\ requests[2] # <<>>
  /\ result[1].ok /\ IsHttpError(2)
  /\ StatusOf(1) = 200 /\ response[2] # None /\ StatusOf(2) = 404

AccessorNames ==
  {"task_arn", "task_id", "cluster", "limits", "docker_id", "image",
   "task_definition_family", "task_definition_revision", "container_name"}

\* C9: an invocation holds an instance only after a successful init() (the
\* decode step); from then on it holds the same instance for ever, every
\* accessor can be called and returns a value, an accessor call changes
\* nothing but the caller's returned value, and calling the same accessor
\* again returns the same value.
C9_FetchedIsImmutable ==
  /\ [](\A i \in DOMAIN pc :
          /\ ret[i] # NoRet => Fetched(i) /\ ret[i].name \in AccessorNames
          /\ Fetched(i) =>
               /\ ENABLED TaskArn(i) /\ ENABLED TaskId(i) /\ ENABLED Cluster(i)
               /\ ENABLED Limits(i) /\ ENABLED DockerId(i) /\ ENABLED Image(i)
               /\ ENABLED TaskDefinitionFamily(i)
               /\ ENABLED TaskDefinitionRevision(i)
               /\ ENABLED ContainerName(i))
  /\ [][\A i \in DOMAIN pc :
          /\ Fetched(i) => Fetched(i)' /\ result'[i] = result[i]
          /\ (~Fetched(i) /\ Fetched(i)') => pc[i] = "json" /\ decoded'[i]
          /\ ret'[i] # ret[i] =>
               <<pc, metadata_url, response, result, requests, decoded, env>>'
                 = <<pc, metadata_url, response, result, requests, decoded, env>>
          /\ ret'[i].name = ret[i].name => ret'[i] = ret[i]]_vars

C9_Witness ==
  /\ Fetched(1)
  /\ ret[1] = [name |-> "task_id",
               opt |-> Some(<<"021447970bce4bd58069f1925cd87bc0">>)]
  /\ Fetched(2)
  /\ ret[2].name = "limits"

\* C10: a failing init() returns EnvVarNotSet exactly when the environment
\* read failed, and HttpError when the transport, the status check or the
\* decode failed, named after the first step that failed; FetchError is
\* never returned.
C10_TwoErrorVariants ==
  \A i \in DOMAIN pc :
    Failed(i) =>
      /\ result[i].e.variant \in {"EnvVarNotSet", "HttpError"}
      /\ result[i].e.variant = "EnvVarNotSet" <=> metadata_url[i] = None
      /\ result[i].e.variant = "HttpError" =>
           /\ result[i].e.source = "request" <=> response[i] = None
           /\ result[i].e.source = "status" <=>
                (response[i] # None /\ ~decoded[i])
           /\ result[i].e.source = "decode" <=> decoded[i]

C10_Witness ==
  /\ Failed(1) /\ result[1].e = [variant |-> "HttpError", source |-> "decode"]
  /\ Failed(2) /\ result[2].e = [variant |-> "HttpError", source |-> "status"]

====
